---- MODULE Spec2Model ----
(***************************************************************************)
(* Pinecone Assistant connector (api/pinecone-assistant.js): the request   *)
(* handler, the host resolver with its TTL cache, the doFetch dispatcher   *)
(* with its 429 retry, and the error normaliser.                           *)
(*                                                                         *)
(* A JavaScript value that may be undefined is a set of at most one        *)
(* element: None is undefined, Some(v) is v.  A string that the code       *)
(* inspects (a host, a URL) is a sequence of tokens: a scheme token, a     *)
(* host-name token, "/" and path segments.                                 *)
(***************************************************************************)
EXTENDS Integers, Sequences, FiniteSets, TLC

None == {}
Some(v) == {v}
Val(o) == CHOOSE v \in o : TRUE
Truthy(o) == o # None

(* ------------------------------ bounds -------------------------------- *)
ClockStep == 150000
MaxTicks == 2

MaxNow == MaxTicks * ClockStep

\* the invocations of handler: Reqs are handled one at a time, Slots can be in
\* progress at once
Reqs == {"r1"}
Slots == {"r1", "r2"}

(* ------------------------- program constants -------------------------- *)
HOST_CACHE_TTL_MS == 5 * 60 * 1000
DefaultRetries == 2

SupportedActions ==
  <<"chat", "search", "describeAssistant", "listAssistants", "listFiles", "deleteFile", "store">>

LIMITS ==
  [upload_rpm |-> [starter |-> 5, standard |-> 20, enterprise |-> 300],
   file_size_mb |-> [pdf |-> [starter |-> 10, standard |-> 100, enterprise |-> 100],
                     text_like |-> 10]]

(* ------------------------- strings as tokens -------------------------- *)
Schemes == {"https://", "http://"}

\* host.startsWith("http")
StartsWithHttp(s) == Len(s) > 0 /\ Head(s) \in (Schemes \cup {"httpbin.org"})

\* str.replace(/\/+$/, "")
RECURSIVE StripTrailingSlashes(_)
StripTrailingSlashes(p) ==
  IF Len(p) > 0 /\ p[Len(p)] = "/" THEN StripTrailingSlashes(SubSeq(p, 1, Len(p) - 1)) ELSE p

\* str.replace(/\/$/, "")
StripOneTrailingSlash(p) ==
  IF Len(p) > 0 /\ p[Len(p)] = "/" THEN SubSeq(p, 1, Len(p) - 1) ELSE p

\* path.endsWith("/assistant")
EndsWithAssistant(p) ==
  Len(p) >= 2 /\ p[Len(p) - 1] = "/" /\ p[Len(p)] = "assistant"

\* new URL(s): None when the constructor throws (no scheme, no host)
ParseURL(s) ==
  IF Len(s) >= 2 /\ s[1] \in Schemes /\ s[2] # "/"
  THEN Some([scheme |-> s[1], host |-> s[2],
             pathname |-> IF Len(s) > 2 THEN SubSeq(s, 3, Len(s)) ELSE <<"/">>])
  ELSE None

\* url.toString()
URLToString(u) == <<u.scheme, u.host>> \o u.pathname

\* mutant: the suffix is added without looking at the path
AddAssistantSuffix_Always(path) == path \o <<"/", "assistant">>

\* path.endsWith("/assistant") ? path : `${path}/assistant`, line 231

AddAssistantSuffix(path) ==
  IF EndsWithAssistant(path) THEN path ELSE path \o <<"/", "assistant">>

\* normalizeAssistantBase(host): None when new URL throws
normalizeAssistantBase(host) ==
  LET parsed == IF StartsWithHttp(host) THEN ParseURL(host) ELSE ParseURL(<<"https://">> \o host)
  IN IF parsed = None THEN None
     ELSE LET url == Val(parsed)
              path == StripTrailingSlashes(url.pathname)
          IN Some(StripOneTrailingSlash(
                    URLToString([url EXCEPT !.pathname = AddAssistantSuffix(path)])))

ControlPlane == <<"https://", "api.pinecone.io", "/", "assistant", "/", "assistants">>


(* ----------------------------- the inputs ----------------------------- *)
Names == {"demo", "other"}

\* elements of a chat context / a search messages list
Turn1 == [role |-> "user", content |-> "earlier question"]
Turn2 == [role |-> "assistant", content |-> "earlier answer"]

NoData ==
  [message |-> None, context |-> None, query |-> None, messages |-> None,
   file_id |-> None, filter |-> None]

ChatData ==
  {[NoData EXCEPT !.message = m, !.context = c] :
     m \in {None, Some("hello")}, c \in {None, Some(<<Turn1, Turn2>>)}}

SearchData ==
  {[NoData EXCEPT !.query = qy, !.messages = ms] :
     qy \in {None, Some("what is x")}, ms \in {None, Some(<<>>), Some(<<Turn1>>)}}

DeleteData == {[NoData EXCEPT !.file_id = f] : f \in {None, Some("file-1")}}

\* store looks at no field of its payload
StoreData == {NoData, [NoData EXCEPT !.message = Some("hello")]}

DataOf(action) ==
  CASE action = Some("chat") -> ChatData
    [] action = Some("search") -> SearchData
    [] action = Some("deleteFile") -> DeleteData
    [] action = Some("store") -> StoreData
    [] OTHER -> {NoData}

Actions ==
  {Some(SupportedActions[i]) : i \in DOMAIN SupportedActions} \cup {Some("upload"), None}

ExplicitHosts == {None, Some(<<"explicit.example">>)}

\* req.body after the platform's parsing: None is a string that JSON.parse rejects
Bodies ==
  {Some([action |-> a, assistant_name |-> n, assistant_id |-> i, assistant_host |-> h, data |-> d]) :
     a \in Actions, n \in {None, Some("demo")}, i \in {None, Some("other")},
     h \in ExplicitHosts, d \in UNION {DataOf(x) : x \in Actions}}

Token == "s3cret"
Bearer(tok) == "Bearer " \o tok

\* the requests a client can send; a rejected request's body is never read,
\* so those carry one body
Requests ==
  {[method |-> "POST", authorization |-> Some(Bearer(Token)), body |-> b] :
     b \in {x \in Bodies : Val(x).data \in DataOf(Val(x).action)} \cup {None}}
  \cup
  {[method |-> m, authorization |-> au,
    body |-> Some([action |-> a, assistant_name |-> Some("demo"), assistant_id |-> None,
                   assistant_host |-> None, data |-> NoData])] :
     m \in {"POST", "OPTIONS", "GET"}, au \in {None, Some(Bearer("wrong"))}, a \in Actions}

(* ------------------------ the upstream platform ----------------------- *)
EmptyObj ==
  [host |-> None, message |-> None, citations |-> None, context_snippets |-> None,
   usage |-> None, model |-> None, snippets |-> None, id |-> None]

Hi == [EmptyObj EXCEPT !.message = Some([content |-> Some("hi")])]

FullChat ==
  [EmptyObj EXCEPT !.message = Some([content |-> None]),
                   !.citations = Some(<<"cite-1">>),
                   !.context_snippets = Some(<<"snip-1">>),
                   !.usage = Some([total_tokens |-> 7]),
                   !.model = Some("gpt-4o")]

Snips == [EmptyObj EXCEPT !.snippets = Some(<<"snip-1">>), !.id = Some("ctx-1")]

DiscoveredHosts == {<<"prod.example">>, <<"https://", "prod.example", "/">>}

StatusText(status) ==
  CASE status = 200 -> "OK"
    [] status = 202 -> "Accepted"
    [] status = 204 -> "No Content"
    [] status = 429 -> "Too Many Requests"
    [] status = 500 -> "Internal Server Error"
    [] OTHER -> ""

FailureResponses ==
  {[status |-> 429, retryAfter |-> ra, body |-> None] : ra \in {None, Some("0"), Some("2"), Some("soon")}}
  \cup {[status |-> 500, retryAfter |-> None, body |-> Some(EmptyObj)]}

\* what the platform may answer to one HTTP attempt; body None does not parse as JSON
Responses(kind, action) ==
  FailureResponses \cup
  (IF kind = "discover"
   THEN {[status |-> 200, retryAfter |-> None, body |-> b] :
           b \in {Some(EmptyObj)} \cup {Some([EmptyObj EXCEPT !.host = Some(h)]) : h \in DiscoveredHosts}}
   ELSE CASE action = Some("chat") ->
               {[status |-> 200, retryAfter |-> None, body |-> b] :
                  b \in {None, Some(EmptyObj), Some(Hi), Some(FullChat)}}
          [] action = Some("search") ->
               {[status |-> 200, retryAfter |-> None, body |-> b] : b \in {Some(EmptyObj), Some(Snips)}}
          [] action = Some("deleteFile") ->
               {[status |-> s, retryAfter |-> None, body |-> b] :
                  s \in {200, 202, 204}, b \in {None, Some(EmptyObj)}}
          [] OTHER ->
               {[status |-> 200, retryAfter |-> None, body |-> b] : b \in {None, Some(Hi)}})


(* ------------------------------- state -------------------------------- *)
VARIABLES
  AUTH_TOKEN,   \* process.env.MONEYPENNY_AUTH_TOKEN: None when not configured
  hostCache,    \* assistant name -> None or Some([host, expiresAt])
  now,          \* Date.now(), in ms
  req,          \* the invocations of handler in progress
  discovered,   \* history: assistant name -> None or Some(t), t the time at which the
                \* latest host resolution that ended in a successful discovery began
  stored,       \* history: assistant name -> None or Some(t), t the time at which the
                \* latest discovery response for the name came back and its entry
                \* was stored
  norm          \* a host string under repeated normalisation, see SpecNormalize

vars == <<AUTH_TOKEN, hostCache, now, req, discovered, stored, norm>>

\* One invocation of handler.  pc: "new" not yet received, "fetch" awaiting
\* fetch() at line 329, "sleep" awaiting the backoff timer at line 336, "done".
\* call, retries, sent, t0: the locals of the doFetch / getAssistantBase frames.
\* out: what was sent on res.  calls, attempts, inflight, cacheReads, cacheWrites,
\* upstream (the latest response to the current doFetch call): the history of the invocation, never
\* read by the code.
NewReq ==
  [pc |-> "new", input |-> None, call |-> "none", retries |-> 0, sent |-> None,
   t0 |-> None, delay |-> None, wakeAt |-> None, out |-> <<>>,
   calls |-> <<>>, attempts |-> [discover |-> 0, action |-> 0], inflight |-> 0,
   cacheReads |-> 0, cacheWrites |-> 0, upstream |-> None]

\* no host string is under normalisation
NoNorm == [input |-> <<>>, host |-> <<>>, applied |-> 0, fresh |-> FALSE, first |-> None]

Init ==
  /\ AUTH_TOKEN \in {None, Some(Token)}
  /\ hostCache = [n \in Names |-> None]
  /\ now = 0
  /\ req = [r \in Slots |-> NewReq]
  /\ discovered = [n \in Names |-> None]
  /\ stored = [n \in Names |-> None]
  /\ norm = NoNorm

(* ------------------------- envelopes and errors ----------------------- *)
Failure(message) == [success |-> FALSE, error |-> message]
Success(type, data) == [success |-> TRUE, type |-> type, data |-> data]

\* res.status(status).json(json), or .end() when json is None
Respond(q, status, json) ==
  [q EXCEPT !.pc = "done", !.out = Append(@, [status |-> status, json |-> json])]

\* new Error(message), thrown by the handler's own code or by the runtime
PlainError(message) == [http |-> FALSE, status |-> None, message |-> message, details |-> None]

\* enrich(resp): resp.json() consumes the body, so a body that is no JSON is
\* captured as null (resp.text() rejects on the used body)
enrich(resp, url) ==
  [http |-> TRUE, status |-> Some(resp.status),
   message |-> "Request failed: " \o ToString(resp.status) \o " " \o StatusText(resp.status),
   details |-> Some([url |-> url, body |-> resp.body])]

\* mutant: the upstream marking is not looked at
normalizeError_DropsStatus(err) ==
  [status |-> None, message |-> Some(err.message), details |-> None]

\* lines 363-366
normalizeError(err) ==
  IF err.http
  THEN [status |-> err.status, message |-> Some(err.message), details |-> err.details]
  ELSE [status |-> None, message |-> Some(err.message), details |-> None]

\* mutant: an error without status is answered as a bad request
Catch_Default400(q, err) ==
  LET n == normalizeError(err)
      status == IF n.status = None THEN 400 ELSE Val(n.status)
      message == IF n.message = None THEN "Unknown error" ELSE Val(n.message)
  IN Respond(q, status,
             Some([success |-> FALSE, error |-> message, details |-> n.details]))

\* mutant: the failure envelope goes out without res.status(status)
Catch_Status200(q, err) ==
  LET n == normalizeError(err)
      message == IF n.message = None THEN "Unknown error" ELSE Val(n.message)
  IN Respond(q, 200,
             Some([success |-> FALSE, error |-> message, details |-> n.details]))

\* mutant: the catch block answers nothing
Catch_NeverAnswers(q, err) == [q EXCEPT !.pc = "hung"]

\* the catch block of handler, lines 218-222
Catch(q, err) ==
  LET n == normalizeError(err)
      status == IF n.status = None THEN 500 ELSE Val(n.status)
      message == IF n.message = None THEN "Unknown error" ELSE Val(n.message)
  IN Respond(q, status,
             Some([success |-> FALSE, error |-> message, details |-> n.details]))

(* ------------------------------- doFetch ------------------------------ *)
\* await fetch(url, opts) at line 329: one HTTP attempt goes out
Fetch(q, retries) ==
  [q EXCEPT !.pc = "fetch", !.retries = retries,
            !.attempts[q.call] = @ + 1, !.inflight = @ + 1]

\* a call doFetch(url, opts) with the default retries
doFetch(q, kind, request) ==
  Fetch([q EXCEPT !.call = kind, !.sent = Some(request), !.calls = Append(@, kind),
                  !.upstream = None],
        DefaultRetries)

\* parseInt(header || "0", 10): None is NaN
ParseInt(header) ==
  CASE header = None -> Some(0)
    [] header = Some("0") -> Some(0)
    [] header = Some("2") -> Some(2)
    [] OTHER -> None

Jitters == {0, 199}

\* mutant: the fallback shrinks from one retry to the next
BackoffDelay_Decreasing(retryAfter, retries, jitter) ==
  LET ra == ParseInt(retryAfter)
  IN IF ra # None /\ Val(ra) > 0 THEN Val(ra) * 1000 ELSE retries * 500 + jitter

\* lines 332-335
BackoffDelay(retryAfter, retries, jitter) ==
  LET ra == ParseInt(retryAfter)
  IN IF ra # None /\ Val(ra) > 0 THEN Val(ra) * 1000 ELSE (3 - retries) * 500 + jitter

\* mutant: retries while retries >= 0
ShouldRetry_OneTooMany(status, retries) == status = 429 /\ retries >= 0

\* line 331
ShouldRetry(status, retries) == status = 429 /\ retries > 0

\* resp.ok
Ok(status) == status >= 200 /\ status <= 299

(* --------------------------- the action router ------------------------ *)
Body(q) == Val(Val(q.input).body)
ActionOf(q) == Body(q).action
\* line 56: assistant_name || assistant_id
NameOf(q) == IF Truthy(Body(q).assistant_name) THEN Body(q).assistant_name ELSE Body(q).assistant_id
DataIn(q) == Body(q).data

\* encodeURIComponent: the names and file ids used here have no character it
\* escapes; undefined becomes the string "undefined"
encodeURIComponent(str) == IF str = None THEN "undefined" ELSE Val(str)

\* Array.prototype.filter(Boolean), line 85, on a list whose elements are objects
\* (Some) or null (None)
FilterBoolean(list) ==
  LET kept == SelectSeq(list, Truthy)
  IN [i \in 1..Len(kept) |-> Val(kept[i])]

\* mutant: the user message is put in front of the context
ChatPayload_MessageFirst(data) ==
  [messages |-> (IF Truthy(data.message)
                 THEN <<[role |-> "user", content |-> Val(data.message)]>> ELSE <<>>)
                \o (IF data.context = None THEN <<>> ELSE Val(data.context)),
   model |-> "gpt-4o", temperature |-> 0, stream |-> FALSE, include_highlights |-> FALSE]

\* lines 81-94: the elements of data.context are turn objects, the last element is
\* the user turn or null
ChatPayload(data) ==
  LET context == IF data.context = None THEN <<>> ELSE Val(data.context)
      turns == [i \in 1..Len(context) |-> Some(context[i])]
      last == IF Truthy(data.message)
              THEN Some([role |-> "user", content |-> Val(data.message)]) ELSE None
  IN [messages |-> FilterBoolean(turns \o <<last>>),
      model |-> "gpt-4o", temperature |-> 0, stream |-> FALSE, include_highlights |-> FALSE]

\* mutant: query wins over messages
SearchPayload_QueryFirst(data) ==
  IF Truthy(data.query) THEN Some([messages |-> None, query |-> data.query])
  ELSE IF data.messages # None /\ Len(Val(data.messages)) > 0
  THEN Some([messages |-> data.messages, query |-> None])
  ELSE None

\* line 133: None is null; a key the payload lacks is None
SearchPayload(data) ==
  IF data.messages # None /\ Len(Val(data.messages)) > 0
  THEN Some([messages |-> data.messages, query |-> None])
  ELSE IF Truthy(data.query) THEN Some([messages |-> None, query |-> data.query])
  ELSE None

\* case "chat" once base is known, lines 68-104
ChatCall(q, base) ==
  doFetch(q, "action",
          [method |-> "POST", url |-> base \o <<"/", "chat", "/", encodeURIComponent(NameOf(q))>>,
           body |-> Some(ChatPayload(DataIn(q)))])

\* case "search" once base is known, lines 125-147
SearchCall(q, base) ==
  IF SearchPayload(DataIn(q)) = None
  THEN Respond(q, 400, Some(Failure("search: provide 'query' or 'messages'")))
  ELSE doFetch(q, "action",
               [method |-> "POST",
                url |-> base \o <<"/", "chat", "/", encodeURIComponent(NameOf(q)), "/", "context">>,
                body |-> SearchPayload(DataIn(q))])

\* listFiles(base, name, filter) up to its doFetch, lines 296-307
ListFilesCall(q, base) ==
  doFetch(q, "action",
          [method |-> "GET", url |-> base \o <<"/", "files", "/", encodeURIComponent(NameOf(q))>>,
           body |-> None])

\* deleteFile(base, name, fileId) up to its doFetch, lines 311-319
DeleteFileCall(q, base) ==
  doFetch(q, "action",
          [method |-> "DELETE",
           url |-> base \o <<"/", "files", "/", encodeURIComponent(NameOf(q)), "/",
                             encodeURIComponent(DataIn(q).file_id)>>,
           body |-> None])

\* the rest of a case once base is known
AfterBase(q, base) ==
  CASE ActionOf(q) = Some("chat") -> ChatCall(q, base)
    [] ActionOf(q) = Some("search") -> SearchCall(q, base)
    [] ActionOf(q) = Some("listFiles") -> ListFilesCall(q, base)
    [] ActionOf(q) = Some("deleteFile") -> DeleteFileCall(q, base)

\* mutant: no entry is ever taken as fresh
CacheFresh_Never(cached, t) == FALSE

\* mutant: the expiry is not looked at
CacheFresh_IgnoresExpiry(cached, t) == cached # None

\* cached && cached.expiresAt > now, line 239
CacheFresh(cached, t) == cached # None /\ Val(cached).expiresAt > t

\* getAssistantBase up to its first await, lines 237-248
getAssistantBase(q, cache, t) ==
  LET name == Val(NameOf(q))
      q1 == [q EXCEPT !.cacheReads = @ + 1]
  IN IF CacheFresh(cache[name], t)
     THEN AfterBase(q1, Val(cache[name]).host)
     ELSE doFetch([q1 EXCEPT !.t0 = Some(t)], "discover",
                  [method |-> "GET",
                   url |-> ControlPlane \o <<"/", encodeURIComponent(NameOf(q))>>,
                   body |-> None])

\* mutant: assistant_host is not looked at
ResolveBase_IgnoresExplicitHost(q, cache, t) == getAssistantBase(q, cache, t)

\* assistant_host ? normalizeAssistantBase(assistant_host) : await getAssistantBase(name)
ResolveBase(q, cache, t) ==
  IF Truthy(Body(q).assistant_host)
  THEN LET base == normalizeAssistantBase(Val(Body(q).assistant_host))
       IN IF base = None THEN Catch(q, PlainError("Invalid URL")) ELSE AfterBase(q, Val(base))
  ELSE getAssistantBase(q, cache, t)

\* mutant: the missing name is thrown as an error instead of answered
NameRequired_Thrown(q) == Catch(q, PlainError("assistant_name is required"))

\* lines 64, 122, 164, 178, 186
NameRequired(q) == Respond(q, 400, Some(Failure("assistant_name is required")))

\* cases "chat", "search", "listFiles" up to the first await: lines 64-65, 122-123, 178-179
ResolvingCase(q, cache, t) ==
  IF ~Truthy(NameOf(q)) THEN NameRequired(q) ELSE ResolveBase(q, cache, t)

\* mutant: describeAssistant looks the name up in the host cache first
DescribeCase_LooksUpCache(q) ==
  IF ~Truthy(NameOf(q)) THEN NameRequired(q)
  ELSE doFetch([q EXCEPT !.cacheReads = @ + 1], "action",
               [method |-> "GET",
                url |-> ControlPlane \o <<"/", encodeURIComponent(NameOf(q))>>,
                body |-> None])

\* case "describeAssistant", lines 163-165, and describeAssistant, lines 270-278
DescribeCase(q) ==
  IF ~Truthy(NameOf(q)) THEN NameRequired(q)
  ELSE doFetch(q, "action",
               [method |-> "GET",
                url |-> ControlPlane \o <<"/", encodeURIComponent(NameOf(q))>>,
                body |-> None])

\* case "listAssistants", lines 169-171, and listAssistants, lines 282-290
ListAssistantsCase(q) ==
  doFetch(q, "action", [method |-> "GET", url |-> ControlPlane, body |-> None])

\* mutant: the base is resolved before file_id is looked at, as case "search" does
\* with its payload
DeleteFileCase_ResolvesFirst(q, cache, t) ==
  IF ~Truthy(NameOf(q)) THEN NameRequired(q) ELSE ResolveBase(q, cache, t)

\* case "deleteFile" up to the first await, lines 185-188
DeleteFileCase(q, cache, t) ==
  IF ~Truthy(NameOf(q)) THEN NameRequired(q)
  ELSE IF ~Truthy(DataIn(q).file_id)
  THEN Respond(q, 400, Some(Failure("file_id is required")))
  ELSE ResolveBase(q, cache, t)

\* mutant: store asks for the name first, as the other cases do
StoreCase_NameFirst(q) ==
  IF ~Truthy(NameOf(q)) THEN NameRequired(q)
  ELSE Respond(q, 501,
               Some([success |-> FALSE,
                     error |-> "File upload deferred (VS2). Use Pinecone console for now.",
                     details |-> Some("REST multipart upload will be implemented in VS3."),
                     limits |-> LIMITS]))

\* case "store", lines 194-201
StoreCase(q) ==
  Respond(q, 501,
          Some([success |-> FALSE,
                error |-> "File upload deferred (VS2). Use Pinecone console for now.",
                details |-> Some("REST multipart upload will be implemented in VS3."),
                limits |-> LIMITS]))

\* mutant: the name is asked for before the action is rejected
DefaultCase_NameFirst(q) ==
  IF ~Truthy(NameOf(q)) THEN NameRequired(q)
  ELSE Respond(q, 400,
               Some([success |-> FALSE, error |-> "Invalid action",
                     supported_actions |-> SupportedActions]))

\* default, lines 203-216
DefaultCase(q) ==
  Respond(q, 400,
          Some([success |-> FALSE, error |-> "Invalid action",
                supported_actions |-> SupportedActions]))

\* the switch, lines 59-217, up to the first await
Switch(q, cache, t) ==
  CASE ActionOf(q) \in {Some("chat"), Some("search"), Some("listFiles")} -> ResolvingCase(q, cache, t)
    [] ActionOf(q) = Some("describeAssistant") -> DescribeCase(q)
    [] ActionOf(q) = Some("listAssistants") -> ListAssistantsCase(q)
    [] ActionOf(q) = Some("deleteFile") -> DeleteFileCase(q, cache, t)
    [] ActionOf(q) = Some("store") -> StoreCase(q)
    [] OTHER -> DefaultCase(q)

\* mutant: any Authorization header is let through
Unauthorized_AnyHeaderPasses(token, authorization) == Truthy(token) /\ authorization = None

\* AUTH_TOKEN && req.headers.authorization !== `Bearer ${AUTH_TOKEN}`, line 44
Unauthorized(token, authorization) ==
  Truthy(token) /\ authorization # Some(Bearer(Val(token)))

\* handler up to its first await, lines 31-217
handler(q, token, cache, t) ==
  LET in == Val(q.input)
  IN IF in.method = "OPTIONS" THEN Respond(q, 200, None)
     ELSE IF in.method # "POST" THEN Respond(q, 405, Some(Failure("Method not allowed")))
     ELSE IF Unauthorized(token, in.authorization)
     THEN Respond(q, 401, Some(Failure("Unauthorized")))
     ELSE IF in.body = None THEN Respond(q, 400, Some(Failure("Invalid JSON body")))
     ELSE Switch(q, cache, t)


(* --------------------- continuations after an await ------------------- *)
\* resp.json(): rejects on a body that is no JSON
JsonError == PlainError("Unexpected end of JSON input")

\* mutant: the upstream context_snippets are not passed on
ChatResult_DropsSnippets(out) ==
  [response |-> IF out.message # None /\ Val(out.message).content # None
                THEN Val(Val(out.message).content) ELSE "",
   citations |-> IF out.citations # None THEN Val(out.citations) ELSE <<>>,
   context_snippets |-> <<>>,
   usage |-> IF out.usage # None THEN Val(out.usage) ELSE <<>>,
   model |-> out.model]

\* the data of the chat envelope, lines 110-116
ChatResult(out) ==
  [response |-> IF out.message # None /\ Val(out.message).content # None
                THEN Val(Val(out.message).content) ELSE "",
   citations |-> IF out.citations # None THEN Val(out.citations) ELSE <<>>,
   context_snippets |-> IF out.context_snippets # None THEN Val(out.context_snippets) ELSE <<>>,
   usage |-> IF out.usage # None THEN Val(out.usage) ELSE <<>>,
   model |-> out.model]

\* the data of the search envelope, lines 153-157
SearchResult(out) ==
  [snippets |-> IF out.snippets # None THEN Val(out.snippets) ELSE <<>>,
   usage |-> IF out.usage # None THEN Val(out.usage) ELSE <<>>,
   id |-> out.id]

\* mutant: only 200 acknowledges
DeleteAcknowledged_Only200(status) == status = 200

\* line 322
DeleteAcknowledged(status) == status = 200 \/ status = 204

\* the case's code after its own doFetch returned resp (resp.ok holds)
ActionReturns(q, resp) ==
  LET action == Val(ActionOf(q))
  IN IF action = "deleteFile" /\ DeleteAcknowledged(resp.status)
     THEN Respond(q, 200, Some(Success(action, [deleted |-> TRUE, file_id |-> DataIn(q).file_id])))
     ELSE IF resp.body = None THEN Catch(q, JsonError)
     ELSE LET out == Val(resp.body)
          IN CASE action = "chat" -> Respond(q, 200, Some(Success(action, ChatResult(out))))
               [] action = "search" -> Respond(q, 200, Some(Success(action, SearchResult(out))))
               [] OTHER -> Respond(q, 200, Some(Success(action, out)))

\* mutant: the entry lives two TTLs
CacheEntry_DoubleTtl(base, t0) == [host |-> base, expiresAt |-> t0 + 2 * HOST_CACHE_TTL_MS]

\* the entry getAssistantBase stores, line 256
CacheEntry(base, t0) == [host |-> base, expiresAt |-> t0 + HOST_CACHE_TTL_MS]

\* mutant: a response without host falls back to a default host
DiscoveredBase_DefaultsHost(resp) ==
  IF resp.body = None THEN [base |-> None, err |-> JsonError]
  ELSE LET host == IF Truthy(Val(resp.body).host) THEN Val(Val(resp.body).host)
                   ELSE <<"prod.example">>
           hostUrl == IF StartsWithHttp(host) THEN host ELSE <<"https://">> \o host
       IN [base |-> normalizeAssistantBase(hostUrl), err |-> PlainError("Invalid URL")]

\* getAssistantBase after its doFetch returned resp, lines 249-257: the base, or
\* the error thrown
DiscoveredBase(resp) ==
  IF resp.body = None THEN [base |-> None, err |-> JsonError]
  ELSE IF ~Truthy(Val(resp.body).host)
  THEN [base |-> None, err |-> PlainError("Assistant response missing 'host'")]
  ELSE LET host == Val(Val(resp.body).host)
           hostUrl == IF StartsWithHttp(host) THEN host ELSE <<"https://">> \o host
       IN [base |-> normalizeAssistantBase(hostUrl), err |-> PlainError("Invalid URL")]

(* ------------------------------- actions ------------------------------ *)
\* a request out of requests arrives and handler runs to its first await or to
\* its response
Arrive(r, requests) ==
  /\ req[r].pc = "new"
  /\ \E in \in requests :
       req' = [req EXCEPT ![r] = handler([req[r] EXCEPT !.input = Some(in)],
                                         AUTH_TOKEN, hostCache, now)]
  /\ UNCHANGED <<AUTH_TOKEN, hostCache, now, discovered, stored, norm>>

Receive(r) == Arrive(r, Requests)

\* fetch() resolves with a resp out of responses and doFetch runs on: lines
\* 331-341, then the caller
Returns(r, responses) ==
  /\ req[r].pc = "fetch"
  /\ \E resp \in responses, jitter \in Jitters :
       LET q == [req[r] EXCEPT !.inflight = @ - 1, !.upstream = Some(resp)]
       IN IF ShouldRetry(resp.status, q.retries)
          THEN LET delay == BackoffDelay(resp.retryAfter, q.retries, jitter)
               IN /\ req' = [req EXCEPT ![r] = [q EXCEPT !.pc = "sleep", !.delay = Some(delay),
                                                          !.wakeAt = Some(now + delay)]]
                  /\ UNCHANGED <<hostCache, discovered, stored>>
          ELSE IF ~Ok(resp.status)
          THEN /\ req' = [req EXCEPT ![r] = Catch(q, enrich(resp, Val(q.sent).url))]
               /\ UNCHANGED <<hostCache, discovered, stored>>
          ELSE IF q.call = "discover"
          THEN LET d == DiscoveredBase(resp)
               IN IF d.base = None
                  THEN /\ req' = [req EXCEPT ![r] = Catch(q, d.err)]
                       /\ UNCHANGED <<hostCache, discovered, stored>>
                  ELSE /\ hostCache' = [hostCache EXCEPT ![Val(NameOf(q))] =
                                          Some(CacheEntry(Val(d.base), Val(q.t0)))]
                       /\ discovered' = [discovered EXCEPT ![Val(NameOf(q))] = q.t0]
                       /\ stored' = [stored EXCEPT ![Val(NameOf(q))] = Some(now)]
                       /\ req' = [req EXCEPT ![r] =
                                    AfterBase([q EXCEPT !.cacheWrites = @ + 1, !.t0 = None],
                                              Val(d.base))]
          ELSE /\ req' = [req EXCEPT ![r] = ActionReturns(q, resp)]
               /\ UNCHANGED <<hostCache, discovered, stored>>
  /\ UNCHANGED <<AUTH_TOKEN, now, norm>>

FetchReturns(r) == Returns(r, Responses(req[r].call, ActionOf(req[r])))

\* mutant: the retry does not wait for the timer
Wake_Early(r) ==
  /\ req[r].pc = "sleep"
  /\ req' = [req EXCEPT ![r] = Fetch([req[r] EXCEPT !.delay = None, !.wakeAt = None],
                                     req[r].retries - 1)]
  /\ UNCHANGED <<AUTH_TOKEN, hostCache, now, discovered, stored, norm>>

\* the backoff timer fires and doFetch calls itself with retries - 1, line 337
Wake(r) ==
  /\ req[r].pc = "sleep"
  /\ now >= Val(req[r].wakeAt)
  /\ req' = [req EXCEPT ![r] = Fetch([req[r] EXCEPT !.delay = None, !.wakeAt = None],
                                     req[r].retries - 1)]
  /\ UNCHANGED <<AUTH_TOKEN, hostCache, now, discovered, stored, norm>>

\* the response has gone out and the invocation is over
Forget(r) ==
  /\ req[r].pc = "done"
  /\ req' = [req EXCEPT ![r] = NewReq]
  /\ UNCHANGED <<AUTH_TOKEN, hostCache, now, discovered, stored, norm>>

\* time passes
Tick ==
  /\ now + ClockStep <= MaxNow
  /\ now' = now + ClockStep
  /\ UNCHANGED <<AUTH_TOKEN, hostCache, req, discovered, stored, norm>>

Next ==
  \/ \E r \in Reqs : Receive(r)
  \/ \E r \in Reqs : FetchReturns(r)
  \/ \E r \in Reqs : Wake(r)
  \/ \E r \in Reqs : Forget(r)
  \/ Tick

\* requests handled one after the other, as long as the clock runs

Spec == Init /\ [][Next]_vars


(* ------------- normalizeAssistantBase applied to host strings --------- *)
MaxTrailingSlashes == 2
MaxApplications == 3

RECURSIVE Slashes(_)
Slashes(k) == IF k = 0 THEN <<>> ELSE <<"/">> \o Slashes(k - 1)

TrailingSlashes(s) == Len(s) - Len(StripTrailingSlashes(s))

\* the host strings handed to normalizeAssistantBase: with and without scheme,
\* with and without path, with trailing slashes
HostInputs ==
  {scheme \o <<name>> \o path \o Slashes(k) :
     scheme \in {<<>>, <<"https://">>, <<"http://">>},
     name \in {"example.com", "httpbin.org"},
     path \in {<<>>, <<"/", "assistant">>, <<"/", "v1">>, <<"/", "v1", "/", "assistant">>,
               <<"/", "assistant", "/", "assistant">>},
     k \in 0..MaxTrailingSlashes}

InitNormalize ==
  /\ AUTH_TOKEN = None
  /\ hostCache = [n \in Names |-> None]
  /\ now = 0
  /\ req = [r \in Slots |-> NewReq]
  /\ discovered = [n \in Names |-> None]
  /\ stored = [n \in Names |-> None]
  /\ norm \in {[NoNorm EXCEPT !.input = h, !.host = h] : h \in HostInputs}

\* normalizeAssistantBase(host) returns and its result is the next host string
Normalize ==
  /\ norm.applied < MaxApplications
  /\ normalizeAssistantBase(norm.host) # None
  /\ norm' = [norm EXCEPT !.host = Val(normalizeAssistantBase(norm.host)),
                          !.applied = @ + 1, !.fresh = TRUE,
                          !.first = IF norm.applied = 0
                                    THEN normalizeAssistantBase(norm.host) ELSE @]
  /\ UNCHANGED <<AUTH_TOKEN, hostCache, now, req, discovered, stored>>

\* a caller hands the normalised value on with a slash at its end
AppendSlash ==
  /\ norm.applied >= 1
  /\ TrailingSlashes(norm.host) < MaxTrailingSlashes
  /\ norm' = [norm EXCEPT !.host = @ \o <<"/">>, !.fresh = FALSE]
  /\ UNCHANGED <<AUTH_TOKEN, hostCache, now, req, discovered, stored>>

NextNormalize == Normalize \/ AppendSlash

SpecNormalize == InitNormalize /\ [][NextNormalize]_vars

(* ------------------- invocations in progress at once ------------------ *)
\* chat requests for the two names, resolved through the cache
ConcurrentRequests ==
  {[method |-> "POST", authorization |-> None,
    body |-> Some([action |-> Some("chat"), assistant_name |-> Some(n), assistant_id |-> None,
                   assistant_host |-> None,
                   data |-> [NoData EXCEPT !.message = Some("hello")]])] : n \in Names}

\* the hosts the control plane may report for a name: an assistant may move
HostsOf(name) ==
  IF name = "demo" THEN {<<"prod.example">>, <<"moved.example">>} ELSE {<<"other.example">>}

\* the answers to the attempts of these requests: the discovery is rate-limited
\* or reports a host of the name, the chat call succeeds
ConcurrentResponses(q) ==
  IF q.call = "discover"
  THEN {[status |-> 429, retryAfter |-> None, body |-> None]} \cup
       {[status |-> 200, retryAfter |-> None, body |-> Some([EmptyObj EXCEPT !.host = Some(h)])] :
          h \in HostsOf(Val(NameOf(q)))}
  ELSE {[status |-> 200, retryAfter |-> None, body |-> Some(Hi)]}

InitConcurrent ==
  /\ AUTH_TOKEN = None
  /\ hostCache = [n \in Names |-> None]
  /\ now = 0
  /\ req = [r \in Slots |-> NewReq]
  /\ discovered = [n \in Names |-> None]
  /\ stored = [n \in Names |-> None]
  /\ norm = NoNorm

ReceiveConcurrent(r) == Arrive(r, ConcurrentRequests)

FetchReturnsConcurrent(r) == Returns(r, ConcurrentResponses(req[r]))

NextConcurrent ==
  \/ \E r \in Slots : ReceiveConcurrent(r)
  \/ \E r \in Slots : FetchReturnsConcurrent(r)
  \/ \E r \in Slots : Wake(r)
  \/ \E r \in Slots : Forget(r)
  \/ Tick

\* the invocations interleave at their awaits
SpecConcurrent == InitConcurrent /\ [][NextConcurrent]_vars

(* ------------- every call and every backoff timer completes ----------- *)
\* the answers to the attempts: any call may be rate-limited, fail or succeed
LiveResponses(q) ==
  {[status |-> 429, retryAfter |-> None, body |-> None],
   [status |-> 500, retryAfter |-> None, body |-> Some(EmptyObj)]} \cup
  (IF q.call = "discover"
   THEN {[status |-> 200, retryAfter |-> None,
          body |-> Some([EmptyObj EXCEPT !.host = Some(<<"prod.example">>)])]}
   ELSE {[status |-> 200, retryAfter |-> None, body |-> Some(Hi)]})

ReceiveLive(r) == Arrive(r, ConcurrentRequests)

FetchReturnsLive(r) == Returns(r, LiveResponses(req[r]))

\* the backoff timer fires, line 336.  The clock is followed up to MaxNow: a
\* reading of MaxNow stands for that time or any later one, so a timer that is
\* still set then fires as well.
WakeLive(r) ==
  /\ req[r].pc = "sleep"
  /\ now >= Val(req[r].wakeAt) \/ now = MaxNow
  /\ req' = [req EXCEPT ![r] = Fetch([req[r] EXCEPT !.delay = None, !.wakeAt = None],
                                     req[r].retries - 1)]
  /\ UNCHANGED <<AUTH_TOKEN, hostCache, now, discovered, stored, norm>>

NextLive ==
  \/ \E r \in Reqs : ReceiveLive(r)
  \/ \E r \in Reqs : FetchReturnsLive(r)
  \/ \E r \in Reqs : WakeLive(r)
  \/ \E r \in Reqs : Forget(r)
  \/ Tick

\* fetch() settles, time passes and the timers fire
FairLive ==
  /\ WF_vars(Tick)
  /\ \A r \in Reqs : WF_vars(FetchReturnsLive(r)) /\ WF_vars(WakeLive(r))

SpecLive == InitConcurrent /\ [][NextLive]_vars /\ FairLive

(* ------------------------- vocabulary of the claims ------------------- *)
Received(q) == q.input # None

\* the request is a POST that the bearer check lets through
Authorized(q) ==
  /\ Received(q)
  /\ Val(q.input).method = "POST"
  /\ (AUTH_TOKEN = None \/ Val(q.input).authorization = Some(Bearer(Val(AUTH_TOKEN))))

\* ... and its body is an object
PassesPreFilters(q) == Authorized(q) /\ Val(q.input).body # None

Is(q, action) == PassesPreFilters(q) /\ ActionOf(q) = Some(action)
HasName(q) == Body(q).assistant_name # None \/ Body(q).assistant_id # None
HasExplicitHost(q) == Body(q).assistant_host # None

\* the request reaches the base-URL resolution of its case
ReachesResolution(q) ==
  /\ PassesPreFilters(q)
  /\ HasName(q)
  /\ \/ ActionOf(q) \in {Some("chat"), Some("search"), Some("listFiles")}
     \/ ActionOf(q) = Some("deleteFile") /\ DataIn(q).file_id # None

CallsOf(q, kind) == Cardinality({i \in DOMAIN q.calls : q.calls[i] = kind})
NoUpstreamCall(q) == q.calls = <<>> /\ q.attempts.discover = 0 /\ q.attempts.action = 0
CacheUntouched(q) == q.cacheReads = 0 /\ q.cacheWrites = 0

Done(q) == q.pc = "done"
Answer(q) == q.out[1]
AnsweredWith(q, status, json) == q.out = <<[status |-> status, json |-> Some(json)]>>

\* r was received in this step
Arrives(r) == req[r].pc = "new" /\ req'[r].pc # "new"

(* ------------------------------- claims ------------------------------- *)

\* C1: a host resolution without explicit host that is performed less than the TTL
\* after the start of the latest resolution of the same name that ended in a
\* successful discovery issues no discovery call (it is served from the cache, so
\* the two resolutions issue one discovery call in total); a resolution performed
\* at or after that entry's expiry, or with no earlier discovery, issues one
\* discovery call.  No request issues more than one discovery call.
C1_OneDiscoveryPerTtlWindow ==
  [][\A r \in Reqs :
       /\ CallsOf(req'[r], "discover") <= 1
       /\ (Arrives(r) /\ ReachesResolution(req'[r]) /\ ~HasExplicitHost(req'[r])) =>
            LET n == Val(NameOf(req'[r]))
                withinTtl == /\ discovered[n] # None
                             /\ now < Val(discovered[n]) + HOST_CACHE_TTL_MS
            IN CallsOf(req'[r], "discover") = (IF withinTtl THEN 0 ELSE 1)]_vars

\* C1 witness: a second resolution of a name, later than the first and inside its
\* TTL window, has gone on to the action's call without a discovery call
C1_Witness ==
  \E r \in Reqs :
    /\ ReachesResolution(req[r]) /\ ~HasExplicitHost(req[r])
    /\ req[r].pc = "fetch" /\ req[r].call = "action"
    /\ CallsOf(req[r], "discover") = 0
    /\ discovered[Val(NameOf(req[r]))] # None
    /\ now > Val(discovered[Val(NameOf(req[r]))])
    /\ now < Val(discovered[Val(NameOf(req[r]))]) + HOST_CACHE_TTL_MS

\* C2: one doFetch call makes at most 3 HTTP attempts; a retry is pending only
\* after a 429 with retries remaining, at most 2 times; a 429 on the third attempt
\* ends the request with the failure envelope of status 429.
C2_AtMostThreeAttempts ==
  \A r \in Reqs :
    LET q == req[r]
    IN /\ q.attempts.discover <= 3 /\ q.attempts.action <= 3
       /\ q.pc = "sleep" =>
            /\ Val(q.upstream).status = 429
            /\ q.retries > 0
            /\ q.attempts[q.call] = 3 - q.retries
            /\ q.attempts[q.call] <= 2
       /\ (q.pc = "fetch") => q.attempts[q.call] = 3 - q.retries
       /\ (Done(q) /\ q.upstream # None /\ Val(q.upstream).status = 429) =>
            /\ q.attempts[q.call] = 3
            /\ Answer(q).status = 429
            /\ Val(Answer(q).json).success = FALSE

\* C2 witness: a call answered 429 three times has ended the request
C2_Witness ==
  \E r \in Reqs :
    /\ Done(req[r]) /\ req[r].upstream # None /\ Val(req[r].upstream).status = 429
    /\ req[r].attempts.action = 3
    /\ Answer(req[r]).status = 429


\* C3 (as claimed): a search request with neither a query nor a non-empty messages
\* list is answered 400 and no upstream call, host discovery included, has been
\* issued for it when the answer is sent.
C3_SearchRejectedBeforeAnyCall ==
  \A r \in Reqs :
    LET q == req[r]
    IN (/\ Is(q, "search") /\ HasName(q)
        /\ DataIn(q).query = None
        /\ (DataIn(q).messages = None \/ Val(DataIn(q).messages) = <<>>)
        /\ Done(q))
       => (Answer(q).status = 400 /\ NoUpstreamCall(q))

\* C4 (as claimed): every action but listAssistants answers a request without a
\* name with 400, no upstream call and no cache access.
C4_NameMandatoryButForList ==
  \A r \in Reqs :
    LET q == req[r]
    IN (PassesPreFilters(q) /\ ~HasName(q) /\ ActionOf(q) # Some("listAssistants"))
       => (Done(q) /\ Answer(q).status = 400 /\ NoUpstreamCall(q) /\ CacheUntouched(q))

\* C4 (amended): every action but listAssistants and store answers a request
\* without a name with 400, no upstream call and no cache access; store answers it
\* with 501; listAssistants goes on to its control-plane call and, when that call
\* returns a 2xx JSON body, answers 200 with that body.
C4_NameMandatoryButForListAndStore ==
  \A r \in Reqs :
    LET q == req[r]
    IN (PassesPreFilters(q) /\ ~HasName(q)) =>
         CASE ActionOf(q) = Some("listAssistants") ->
                /\ q.calls = <<"action">>
                /\ CacheUntouched(q)
                /\ (Done(q) /\ Ok(Val(q.upstream).status) /\ Val(q.upstream).body # None) =>
                     AnsweredWith(q, 200, Success("listAssistants", Val(Val(q.upstream).body)))
           [] ActionOf(q) = Some("store") ->
                Done(q) /\ Answer(q).status = 501 /\ NoUpstreamCall(q) /\ CacheUntouched(q)
           [] OTHER ->
                /\ Done(q) /\ Len(q.out) = 1 /\ Answer(q).status = 400
                /\ Val(Answer(q).json).success = FALSE
                /\ NoUpstreamCall(q) /\ CacheUntouched(q)
                /\ ActionOf(q) \in {Some(SupportedActions[i]) : i \in DOMAIN SupportedActions} =>
                     AnsweredWith(q, 400, Failure("assistant_name is required"))

\* C4 witness: a describeAssistant request without a name has been answered 400
C4_Witness ==
  \E r \in Reqs :
    /\ Is(req[r], "describeAssistant") /\ ~HasName(req[r])
    /\ AnsweredWith(req[r], 400, Failure("assistant_name is required"))
    /\ NoUpstreamCall(req[r])

\* C5: a deleteFile request with a name and no file_id is answered at once with 400
\* and {success:false, error:"file_id is required"}; it resolves no host, issues no
\* upstream call and does not touch the cache.
C5_DeleteFileNeedsFileId ==
  \A r \in Reqs :
    LET q == req[r]
    IN (Is(q, "deleteFile") /\ HasName(q) /\ DataIn(q).file_id = None) =>
         /\ Done(q)
         /\ AnsweredWith(q, 400, Failure("file_id is required"))
         /\ NoUpstreamCall(q) /\ CacheUntouched(q) /\ q.t0 = None

\* C5 witness: such a request, without assistant_host and with no cache entry for
\* its name, has been answered
C5_Witness ==
  \E r \in Reqs :
    /\ Is(req[r], "deleteFile") /\ HasName(req[r]) /\ DataIn(req[r]).file_id = None
    /\ ~HasExplicitHost(req[r])
    /\ hostCache[Val(NameOf(req[r]))] = None
    /\ Done(req[r])

\* C6: when the latest upstream response of a finished request is non-2xx, the
\* request has one answer, a failure envelope whose HTTP status is that upstream
\* status; a non-2xx response other than 429 finishes the request at once.
C6_UpstreamStatusPassedThrough ==
  \A r \in Reqs :
    LET q == req[r]
    IN (q.upstream # None /\ ~Ok(Val(q.upstream).status)) =>
         /\ Val(q.upstream).status # 429 => Done(q)
         /\ Done(q) =>
              /\ Len(q.out) = 1
              /\ Answer(q).status = Val(q.upstream).status
              /\ Val(Answer(q).json).success = FALSE

\* C6 witness: a 500 on the second attempt of the action's call has been passed on
C6_Witness ==
  \E r \in Reqs :
    /\ Done(req[r]) /\ req[r].upstream # None /\ Val(req[r].upstream).status = 500
    /\ req[r].attempts.action = 2
    /\ Answer(req[r]).status = 500


\* C7: while a request that supplies assistant_host is being handled, the host
\* cache does not change, and the request reads no cache entry and issues no
\* discovery call, for chat, search, listFiles and deleteFile alike.
C7_ExplicitHostBypassesCache ==
  [][\A r \in Reqs :
       (PassesPreFilters(req'[r]) /\ HasExplicitHost(req'[r])) =>
         /\ hostCache' = hostCache
         /\ CacheUntouched(req'[r])
         /\ CallsOf(req'[r], "discover") = 0
         /\ req'[r].t0 = None]_vars

\* C7 witness: a request with assistant_host is at its action's call while the
\* cache holds an expired entry for its name
C7_Witness ==
  \E r \in Reqs :
    /\ ReachesResolution(req[r]) /\ HasExplicitHost(req[r])
    /\ req[r].pc = "fetch" /\ req[r].call = "action"
    /\ hostCache[Val(NameOf(req[r]))] # None
    /\ Val(hostCache[Val(NameOf(req[r]))]).expiresAt <= now

\* C8: a deleteFile whose call is answered 200 or 204 ends with the 200 success
\* envelope of type deleteFile and data {deleted: true, file_id} for the requested
\* file id, whatever the response body, a body that is no JSON included.
C8_DeleteAcknowledgedBy200And204 ==
  \A r \in Reqs :
    LET q == req[r]
    IN (/\ Is(q, "deleteFile") /\ q.call = "action" /\ q.upstream # None
        /\ Val(q.upstream).status \in {200, 204})
       => AnsweredWith(q, 200,
                       [success |-> TRUE, type |-> "deleteFile",
                        data |-> [deleted |-> TRUE, file_id |-> DataIn(q).file_id]])
          /\ DataIn(q).file_id # None

\* C8 witness: a 204 whose body is no JSON has been taken as the acknowledgement
C8_Witness ==
  \E r \in Reqs :
    /\ Is(req[r], "deleteFile") /\ req[r].call = "action" /\ req[r].upstream # None
    /\ Val(req[r].upstream).status = 204 /\ Val(req[r].upstream).body = None
    /\ Done(req[r]) /\ Answer(req[r]).status = 200

\* C9: the payload a search sends carries messages and no query when data.messages
\* is a non-empty list, also when query is supplied; it carries query and no
\* messages when messages is absent or empty and query is present.
C9_SearchPrefersMessages ==
  \A r \in Reqs :
    LET q == req[r]
    IN (Is(q, "search") /\ q.call = "action") =>
         LET payload == Val(Val(q.sent).body)
             messages == DataIn(q).messages
             query == DataIn(q).query
         IN /\ (messages # None /\ Val(messages) # <<>>) =>
                 (payload.messages = messages /\ payload.query = None)
            /\ ((messages = None \/ Val(messages) = <<>>) /\ query # None) =>
                 (payload.query = query /\ payload.messages = None)
            /\ payload.messages # None \/ payload.query # None

\* C9 witness: a search that supplies both has sent messages
C9_Witness ==
  \E r \in Reqs :
    /\ Is(req[r], "search") /\ req[r].call = "action" /\ req[r].pc = "fetch"
    /\ DataIn(req[r]).query # None
    /\ DataIn(req[r]).messages = Some(<<Turn1>>)
    /\ Val(Val(req[r].sent).body).messages = Some(<<Turn1>>)

\* a chat whose own call returned a 2xx with a JSON body
ChatSucceeded(q) ==
  /\ Is(q, "chat") /\ Done(q) /\ q.call = "action"
  /\ q.upstream # None /\ Ok(Val(q.upstream).status) /\ Val(q.upstream).body # None

\* C10 (as claimed): the data of a successful chat's envelope has exactly the
\* fields response, citations, usage and model.
C10_ChatDataHasFourFields ==
  \A r \in Reqs :
    ChatSucceeded(req[r]) =>
      /\ Answer(req[r]).status = 200
      /\ DOMAIN Val(Answer(req[r]).json).data = {"response", "citations", "usage", "model"}

\* C10 (amended): the answer of a successful chat is the 200 envelope
\* {success: true, type: "chat", data} whose data has exactly the fields response,
\* citations, context_snippets, usage and model: response is the upstream
\* message.content or "", citations and context_snippets default to the empty list,
\* usage to the empty map, model is passed through (None when undefined).
C10_ChatDataHasFiveFields ==
  \A r \in Reqs :
    ChatSucceeded(req[r]) =>
      LET up == Val(Val(req[r].upstream).body)
          json == Val(Answer(req[r]).json)
      IN /\ Len(req[r].out) = 1 /\ Answer(req[r]).status = 200
         /\ DOMAIN json = {"success", "type", "data"}
         /\ json.success = TRUE /\ json.type = "chat"
         /\ DOMAIN json.data = {"response", "citations", "context_snippets", "usage", "model"}
         /\ json.data.response =
              (IF up.message # None /\ Val(up.message).content # None
               THEN Val(Val(up.message).content) ELSE "")
         /\ json.data.citations = (IF up.citations = None THEN <<>> ELSE Val(up.citations))
         /\ json.data.context_snippets =
              (IF up.context_snippets = None THEN <<>> ELSE Val(up.context_snippets))
         /\ json.data.usage = (IF up.usage = None THEN <<>> ELSE Val(up.usage))
         /\ json.data.model = up.model
         /\ up = Hi =>
              json.data = [response |-> "hi", citations |-> <<>>, context_snippets |-> <<>>,
                           usage |-> <<>>, model |-> None]

\* C10 witness: the upstream body {message: {content: "hi"}} has been answered
C10_Witness ==
  \E r \in Reqs :
    /\ ChatSucceeded(req[r])
    /\ Val(req[r].upstream).body = Some(Hi)
    /\ Val(Answer(req[r]).json).data.response = "hi"

\* C11: the messages list a chat call sends upstream is the request's context in
\* its order, followed by {role: "user", content: message} when the request has a
\* message and by nothing when it has none; without context and with a message it
\* is the one-element list of that user turn.
C11_ChatMessagesAreContextThenMessage ==
  \A r \in Reqs :
    LET q == req[r]
    IN (Is(q, "chat") /\ q.call = "action") =>
         LET context == IF DataIn(q).context = None THEN <<>> ELSE Val(DataIn(q).context)
             messages == Val(Val(q.sent).body).messages
         IN /\ DataIn(q).message # None =>
                 messages = context \o <<[role |-> "user", content |-> Val(DataIn(q).message)]>>
            /\ DataIn(q).message = None => messages = context
            /\ (DataIn(q).message # None /\ context = <<>>) =>
                 messages = <<[role |-> "user", content |-> Val(DataIn(q).message)]>>

\* C11 witness: a chat call with a two-turn context and a message is in flight,
\* its messages list three elements long and ending with the user turn
C11_Witness ==
  \E r \in Reqs :
    /\ Is(req[r], "chat") /\ req[r].call = "action" /\ req[r].pc = "fetch"
    /\ DataIn(req[r]).context = Some(<<Turn1, Turn2>>)
    /\ DataIn(req[r]).message = Some("hello")
    /\ Len(Val(Val(req[r].sent).body).messages) = 3
    /\ Val(Val(req[r].sent).body).messages[3] = [role |-> "user", content |-> "hello"]


\* the failure envelope of an error thrown without the upstream-HTTP marking
LocalFailure(message) == [success |-> FALSE, error |-> message, details |-> None]

\* C12: an error raised by the handler's own code, and not made from an upstream
\* non-2xx response, ends the request with status 500 and the envelope
\* {success: false, error: <the error's message>} without details: so a discovery
\* answered 2xx without a host field, and a 2xx answer whose body is no JSON.
C12_LocalErrorIs500 ==
  \A r \in Reqs :
    LET q == req[r]
    IN (Done(q) /\ PassesPreFilters(q) /\ q.upstream # None /\ Ok(Val(q.upstream).status)) =>
         LET resp == Val(q.upstream)
         IN /\ (q.call = "discover" /\ resp.body # None /\ Val(resp.body).host = None) =>
                 AnsweredWith(q, 500, LocalFailure("Assistant response missing 'host'"))
            /\ (q.call = "discover" /\ resp.body = None) =>
                 AnsweredWith(q, 500, LocalFailure("Unexpected end of JSON input"))
            /\ (q.call = "action" /\ resp.body = None
                /\ ~(ActionOf(q) = Some("deleteFile") /\ resp.status \in {200, 204})) =>
                 AnsweredWith(q, 500, LocalFailure("Unexpected end of JSON input"))

\* C12 witness: a discovery was answered 200 without host and the request has
\* ended with 500 and the error's message
C12_Witness ==
  \E r \in Reqs :
    /\ Done(req[r]) /\ req[r].call = "discover"
    /\ req[r].upstream # None /\ Val(req[r].upstream).status = 200
    /\ Val(req[r].upstream).body = Some(EmptyObj)
    /\ AnsweredWith(req[r], 500, LocalFailure("Assistant response missing 'host'"))

\* C13: a request that passes the pre-filters and whose action is none of the
\* seven supported ones (or is absent) has been answered 400 with the envelope
\* {success: false, error: "Invalid action", supported_actions: <the seven names>},
\* without upstream call and without cache read or write, with and without a name.
C13_UnknownActionIs400 ==
  \A r \in Reqs :
    LET q == req[r]
    IN (PassesPreFilters(q)
        /\ ActionOf(q) \notin {Some("chat"), Some("search"), Some("describeAssistant"),
                               Some("listAssistants"), Some("listFiles"),
                               Some("deleteFile"), Some("store")}) =>
         /\ AnsweredWith(q, 400,
                         [success |-> FALSE, error |-> "Invalid action",
                          supported_actions |->
                            <<"chat", "search", "describeAssistant", "listAssistants",
                              "listFiles", "deleteFile", "store">>])
         /\ NoUpstreamCall(q) /\ CacheUntouched(q)

\* C13 witness: the action "upload" sent without a name has been answered 400
\* with the list of supported actions
C13_Witness ==
  \E r \in Reqs :
    /\ PassesPreFilters(req[r]) /\ ActionOf(req[r]) = Some("upload") /\ ~HasName(req[r])
    /\ Done(req[r]) /\ Answer(req[r]).status = 400
    /\ Val(Answer(req[r]).json).error = "Invalid action"

\* C14: a store request that passes the pre-filters has been answered 501 with a
\* failure envelope that carries LIMITS, whatever its payload and name, without
\* upstream call and without cache read or write.
C14_StoreIs501 ==
  \A r \in Reqs :
    LET q == req[r]
    IN Is(q, "store") =>
         /\ Done(q) /\ Len(q.out) = 1 /\ Answer(q).status = 501
         /\ Val(Answer(q).json).success = FALSE
         /\ Val(Answer(q).json).limits =
              [upload_rpm |-> [starter |-> 5, standard |-> 20, enterprise |-> 300],
               file_size_mb |-> [pdf |-> [starter |-> 10, standard |-> 100, enterprise |-> 100],
                                 text_like |-> 10]]
         /\ NoUpstreamCall(q) /\ CacheUntouched(q)

\* C14 witness: a store request without a name has been answered 501 while the
\* cache holds an entry written for an earlier request
C14_Witness ==
  \E r \in Reqs :
    /\ Is(req[r], "store") /\ ~HasName(req[r]) /\ DataIn(req[r]) # NoData
    /\ Done(req[r]) /\ Answer(req[r]).status = 501
    /\ \E n \in Names : hostCache[n] # None

\* C15: with a bearer token configured, a POST whose Authorization header is not
\* "Bearer <token>" (absent or different) has been answered 401 with the failure
\* envelope "Unauthorized", whatever its action, without upstream call and without
\* cache read or write; with no token configured no request is answered 401.
C15_BearerMismatchIs401 ==
  \A r \in Reqs :
    LET q == req[r]
    IN Received(q) =>
         /\ (/\ AUTH_TOKEN = Some("s3cret")
             /\ Val(q.input).method = "POST"
             /\ Val(q.input).authorization # Some("Bearer s3cret")) =>
              /\ AnsweredWith(q, 401, [success |-> FALSE, error |-> "Unauthorized"])
              /\ NoUpstreamCall(q) /\ CacheUntouched(q)
         /\ (AUTH_TOKEN = None /\ Done(q)) => Answer(q).status # 401

\* C15 witness: with the token configured and the cache holding an entry for
\* "demo", a chat request for "demo" with a wrong bearer has been answered 401
C15_Witness ==
  \E r \in Reqs :
    /\ AUTH_TOKEN = Some("s3cret")
    /\ Received(req[r]) /\ Val(req[r].input).method = "POST"
    /\ Val(req[r].input).authorization = Some("Bearer wrong")
    /\ ActionOf(req[r]) = Some("chat")
    /\ hostCache["demo"] # None
    /\ Done(req[r]) /\ Answer(req[r]).status = 401

\* C17 (as claimed): every cache entry expires one TTL after the time at which its
\* discovery response came back and the entry was stored.
C17_ExpiryCountsFromStore ==
  \A n \in Names :
    hostCache[n] # None =>
      /\ stored[n] # None
      /\ Val(hostCache[n]).expiresAt = Val(stored[n]) + HOST_CACHE_TTL_MS

\* C18: a request has at most one response, and has exactly one once it is over;
\* for a POST that passed the pre-filters that response is either status 200 with
\* {success: true, type: <its action>, data} or a status other than 200 with
\* {success: false, ...}; a success envelope is sent only after the action's own
\* call was answered 2xx, and a request whose last upstream answer was not 2xx has
\* the failure envelope.
C18_OneEnvelopeSuccessOrFailure ==
  \A r \in Reqs :
    LET q == req[r]
    IN /\ Len(q.out) <= 1
       /\ Done(q) <=> Len(q.out) = 1
       /\ (Done(q) /\ PassesPreFilters(q)) =>
            /\ Answer(q).json # None
            /\ IF Val(Answer(q).json).success
               THEN /\ Answer(q).status = 200
                    /\ Val(Answer(q).json).type = Val(ActionOf(q))
                    /\ DOMAIN Val(Answer(q).json) = {"success", "type", "data"}
                    /\ q.call = "action" /\ q.upstream # None /\ Ok(Val(q.upstream).status)
               ELSE Answer(q).status # 200
            /\ (q.upstream # None /\ ~Ok(Val(q.upstream).status)) =>
                 ~Val(Answer(q).json).success

\* C18 witness: the discovery succeeded and wrote the cache, the chat call was
\* then answered 500, and the request has ended with the one failure envelope
C18_Witness ==
  \E r \in Reqs :
    /\ Is(req[r], "chat") /\ Done(req[r])
    /\ req[r].calls = <<"discover", "action">> /\ req[r].cacheWrites = 1
    /\ Val(req[r].upstream).status = 500
    /\ Len(req[r].out) = 1 /\ Answer(req[r]).status = 500
    /\ ~Val(Answer(req[r]).json).success

\* C19: one request never has more than one upstream attempt in flight: an
\* attempt is in flight exactly while the request waits in fetch; its calls are
\* the discovery (if any) and then the action's call, the action's call starting
\* in the step in which the discovery's last attempt returned, after which no
\* discovery attempt is made; a retry starts from the backoff wait only, with no
\* attempt in flight and not before the time the 429 returned plus the delay.
C19_OneCallInFlight ==
  [][\A r \in Reqs :
       LET q == req[r]
           p == req'[r]
       IN /\ p.inflight = (IF p.pc = "fetch" THEN 1 ELSE 0)
          /\ p.calls \in {<<>>, <<"discover">>, <<"action">>, <<"discover", "action">>}
          /\ (CallsOf(p, "action") > CallsOf(q, "action") /\ CallsOf(p, "discover") > 0) =>
               /\ q.pc = "fetch" /\ q.call = "discover" /\ q.inflight = 1
               /\ p.attempts.discover = q.attempts.discover
          /\ (q.call = "action" /\ p.pc # "new") => p.attempts.discover = q.attempts.discover
          /\ (p.pc = "fetch" /\ p.call = q.call /\ p.attempts[p.call] > q.attempts[p.call]) =>
               /\ q.pc = "sleep" /\ q.inflight = 0
               /\ now >= Val(q.wakeAt)]_vars

\* C19 witness: the discovery was answered 429, waited, was retried and returned,
\* and the action's call is now the one attempt in flight
C19_Witness ==
  \E r \in Reqs :
    /\ req[r].calls = <<"discover", "action">>
    /\ req[r].attempts.discover = 2 /\ req[r].attempts.action = 1
    /\ req[r].pc = "fetch" /\ req[r].inflight = 1

\* "/assistant/assistant" closes the string
DoubledSuffix(s) == EndsWithAssistant(s) /\ EndsWithAssistant(SubSeq(s, 1, Len(s) - 2))

\* C16: whatever normalizeAssistantBase returns is the value its first application
\* returned, also when it is applied to its own result or to that result with
\* slashes at its end; the value ends with "/assistant", has no slash after it,
\* and ends with "/assistant/assistant" only if the given host did (before its
\* trailing slashes); the bare host "example.com" gives
\* "https://example.com/assistant".
C16_NormalizeIdempotent ==
  (norm.applied >= 1 /\ norm.fresh) =>
    /\ norm.host = Val(norm.first)
    /\ EndsWithAssistant(norm.host)
    /\ DoubledSuffix(norm.host) => DoubledSuffix(StripTrailingSlashes(norm.input))
    /\ norm.input = <<"example.com">> =>
         norm.host = <<"https://", "example.com", "/", "assistant">>
    /\ norm.input = <<"https://", "example.com", "/", "assistant", "/">> =>
         norm.host = <<"https://", "example.com", "/", "assistant">>

\* C16 witness: "example.com" was normalised and a second application, to the
\* result with or without a slash at its end, has returned
\* "https://example.com/assistant" again
C16_Witness ==
  /\ norm.input = <<"example.com">>
  /\ norm.applied = 2 /\ norm.fresh
  /\ norm.host = <<"https://", "example.com", "/", "assistant">>

\* the base URL a chat call was sent to: its URL without "/chat/<name>"
BaseUsed(q) == SubSeq(Val(q.sent).url, 1, Len(Val(q.sent).url) - 4)

\* C20: with invocations in progress at once, a resolution that is served from the
\* cache at time now uses the host of the entry of its own name, a host that the
\* control plane reported for that name, and the discovery response behind that
\* entry came back at a time stored[n] with now - stored[n] less than the TTL; a
\* discovery that stores its base replaces the entry of its name by its own base,
\* whatever entry another invocation wrote before, and touches no other name's
\* entry.
C20_StalenessBoundedByTtl ==
  [][\A r \in Slots :
       LET q == req[r]
           p == req'[r]
       IN /\ (Arrives(r) /\ ReachesResolution(p) /\ ~HasExplicitHost(p)
              /\ CallsOf(p, "discover") = 0) =>
               LET n == Val(NameOf(p))
               IN /\ hostCache[n] # None /\ stored[n] # None
                  /\ BaseUsed(p) = Val(hostCache[n]).host
                  /\ BaseUsed(p) \in {<<"https://", h[1], "/", "assistant">> : h \in HostsOf(n)}
                  /\ Val(stored[n]) <= now
                  /\ now - Val(stored[n]) < 5 * 60 * 1000
          /\ p.cacheWrites > q.cacheWrites =>
               LET n == Val(NameOf(p))
               IN /\ hostCache'[n] # None
                  /\ Val(hostCache'[n]).host = BaseUsed(p)
                  /\ stored'[n] = Some(now)
                  /\ \A m \in Names \ {n} : hostCache'[m] = hostCache[m]]_vars

\* C20 witness: two invocations for "demo" overlap: one discovered the host
\* "moved.example", stored it and still awaits its chat call; the other arrived
\* later, inside the TTL, and was served that host from the cache
C20_Witness ==
  \E r, w \in Slots :
    /\ r # w /\ Received(req[r]) /\ Received(req[w])
    /\ NameOf(req[r]) = Some("demo") /\ NameOf(req[w]) = Some("demo")
    /\ req[w].cacheWrites = 1 /\ req[w].pc = "fetch" /\ req[w].call = "action"
    /\ req[r].cacheReads = 1 /\ CallsOf(req[r], "discover") = 0
    /\ req[r].pc = "fetch" /\ req[r].call = "action"
    /\ BaseUsed(req[r]) = <<"https://", "moved.example", "/", "assistant">>
    /\ stored["demo"] # None /\ now > Val(stored["demo"])

\* C21: while a retry waits, its delay is 2000 ms when the 429 carried
\* Retry-After: 2; when the header is absent, zero or no number it is the number
\* of attempts made so far times 500 ms plus a jitter of 0 to 199 ms: 500 to 699
\* before the first retry, 1000 to 1199 before the second, every delay of the
\* second range above every delay of the first; the timer is set to now + delay.
C21_BackoffDelay ==
  \A r \in Reqs :
    LET q == req[r]
    IN q.pc = "sleep" =>
         LET header == Val(q.upstream).retryAfter
             index == q.attempts[q.call]
             delay == Val(q.delay)
         IN /\ index \in {1, 2}
            /\ header = Some("2") => delay = 2 * 1000
            /\ header \in {None, Some("0"), Some("soon")} =>
                 /\ delay >= index * 500 /\ delay < index * 500 + 200
                 /\ index = 1 => (delay >= 500 /\ delay < 700)
                 /\ index = 2 => (delay >= 1000 /\ delay < 1200)
            /\ header \in {None, Some("0"), Some("2"), Some("soon")}
            /\ Val(q.wakeAt) - delay <= now

\* C21 witness: a second retry waits 1199 ms after a 429 without Retry-After
C21_Witness ==
  \E r \in Reqs :
    /\ req[r].pc = "sleep" /\ req[r].attempts[req[r].call] = 2
    /\ Val(req[r].upstream).retryAfter = None
    /\ req[r].delay = Some(1199)

\* C22: a step in which a discovery attempt comes back with a status outside 2xx,
\* or with a body that has no host, leaves the host cache as it was and the
\* request without cache write; if the request ends there it ends with a failure
\* envelope, and its name is left without a fresh entry.  A resolution of a name
\* without fresh entry issues a discovery call.
C22_FailedDiscoveryLeavesCache ==
  [][\A r \in Reqs :
       LET q == req[r]
           p == req'[r]
       IN /\ (/\ q.pc = "fetch" /\ q.call = "discover"
              /\ p.pc \in {"done", "sleep"} /\ p.upstream # None
              /\ \/ ~Ok(Val(p.upstream).status)
                 \/ Val(p.upstream).body = None
                 \/ Val(Val(p.upstream).body).host = None) =>
               LET n == Val(NameOf(p))
               IN /\ hostCache' = hostCache
                  /\ p.cacheWrites = 0
                  /\ p.pc = "done" =>
                       /\ Answer(p).status # 200 /\ ~Val(Answer(p).json).success
                       /\ hostCache'[n] = None \/ Val(hostCache'[n]).expiresAt <= now
          /\ (/\ Arrives(r) /\ ReachesResolution(p) /\ ~HasExplicitHost(p)
              /\ \/ hostCache[Val(NameOf(p))] = None
                 \/ Val(hostCache[Val(NameOf(p))]).expiresAt <= now) =>
               CallsOf(p, "discover") = 1]_vars

\* C22 witness: the entry of a name has expired, the discovery of a later request
\* for the name was answered 500, and the expired entry is still the one stored
C22_Witness ==
  \E r \in Reqs :
    /\ Done(req[r]) /\ req[r].call = "discover" /\ req[r].cacheWrites = 0
    /\ Val(req[r].upstream).status = 500 /\ Answer(req[r]).status = 500
    /\ hostCache[Val(NameOf(req[r]))] # None
    /\ Val(hostCache[Val(NameOf(req[r]))]).expiresAt <= now

\* C23 (as claimed): the expiresAt of a name's cache entry never decreases: no
\* step replaces an entry by one that expires earlier.
C23_ExpiryNeverDecreases ==
  [][\A n \in Names :
       hostCache[n] # None =>
         /\ hostCache'[n] # None
         /\ Val(hostCache'[n]).expiresAt >= Val(hostCache[n]).expiresAt]_vars

\* the URL of the call in flight begins with base
SentTo(q, base) ==
  Len(Val(q.sent).url) >= Len(base) /\ SubSeq(Val(q.sent).url, 1, Len(base)) = base

\* C24: when the action's own call of a request that discovered and stored its
\* host ends without success (status outside 2xx, or a body that is no JSON), the
\* request ends with a failure envelope and the step leaves the host cache as it
\* is: the name's entry is the one the discovery stored, fresh for as long as the
\* TTL counted from the discovery's start runs.  A later resolution of a name
\* whose entry is fresh issues no discovery call and calls the entry's host.
C24_EntryOutlivesFailedAction ==
  [][\A r \in Reqs :
       LET q == req[r]
           p == req'[r]
       IN /\ (/\ q.pc = "fetch" /\ q.call = "action" /\ q.cacheWrites = 1
              /\ p.pc = "done" /\ ~Val(Answer(p).json).success) =>
               LET n == Val(NameOf(p))
               IN /\ Answer(p).status # 200
                  /\ hostCache' = hostCache
                  /\ hostCache'[n] # None
                  /\ SentTo(p, Val(hostCache'[n]).host)
                  /\ now < Val(discovered[n]) + HOST_CACHE_TTL_MS =>
                       Val(hostCache'[n]).expiresAt > now
          /\ (/\ Arrives(r) /\ ReachesResolution(p) /\ ~HasExplicitHost(p)
              /\ hostCache[Val(NameOf(p))] # None
              /\ Val(hostCache[Val(NameOf(p))]).expiresAt > now) =>
               /\ CallsOf(p, "discover") = 0
               /\ p.pc = "fetch" => SentTo(p, Val(hostCache[Val(NameOf(p))]).host)]_vars

\* C24 witness: a chat request discovered and stored its host at a time the entry
\* is still fresh at, its chat call was answered 500 and it has ended with 500
C24_Witness ==
  \E r \in Reqs :
    /\ Is(req[r], "chat") /\ Done(req[r]) /\ req[r].cacheWrites = 1
    /\ req[r].call = "action" /\ Val(req[r].upstream).status = 500
    /\ Answer(req[r]).status = 500
    /\ hostCache[Val(NameOf(req[r]))] # None
    /\ Val(hostCache[Val(NameOf(req[r]))]).expiresAt > now
    /\ now > Val(discovered[Val(NameOf(req[r]))])

\* C25: no step of a describeAssistant or listAssistants request changes the host
\* cache, and such a request neither reads the cache nor issues a discovery call;
\* a describeAssistant request with a name has issued its one call, to the
\* control plane's URL of the name, whether or not the cache holds a fresh entry
\* of the name and whether or not assistant_host is supplied.
C25_DescribeAndListBypassCache ==
  [][\A r \in Reqs :
       LET p == req'[r]
       IN (PassesPreFilters(p)
           /\ ActionOf(p) \in {Some("describeAssistant"), Some("listAssistants")}) =>
            /\ hostCache' = hostCache
            /\ CacheUntouched(p)
            /\ CallsOf(p, "discover") = 0
            /\ (ActionOf(p) = Some("describeAssistant") /\ HasName(p)) =>
                 /\ p.calls = <<"action">>
                 /\ Val(p.sent).url =
                      <<"https://", "api.pinecone.io", "/", "assistant", "/", "assistants",
                        "/", Val(NameOf(p))>>
            /\ ActionOf(p) = Some("listAssistants") =>
                 /\ p.calls = <<"action">>
                 /\ Val(p.sent).url =
                      <<"https://", "api.pinecone.io", "/", "assistant", "/", "assistants">>]_vars

\* C25 witness: a describeAssistant request with assistant_host, for a name with
\* a fresh cache entry, was answered 200 by way of its control-plane call and the
\* entry is the one stored before
C25_Witness ==
  \E r \in Reqs :
    /\ Is(req[r], "describeAssistant") /\ HasName(req[r]) /\ HasExplicitHost(req[r])
    /\ Done(req[r]) /\ Answer(req[r]).status = 200
    /\ req[r].attempts.action = 1
    /\ hostCache[Val(NameOf(req[r]))] # None
    /\ Val(hostCache[Val(NameOf(req[r]))]).expiresAt > now
    /\ Val(hostCache[Val(NameOf(req[r]))]).expiresAt =
         Val(discovered[Val(NameOf(req[r]))]) + HOST_CACHE_TTL_MS

\* C26: a request that has been received and awaits an upstream answer or a
\* backoff timer is eventually answered, whatever the upstream answers, 429 every
\* time included, as long as every call settles and every timer fires; on the way
\* it makes at most 3 discovery attempts and at most 3 attempts of its own call.
C26_EveryRequestAnswered ==
  /\ \A r \in Reqs : (req[r].pc \in {"fetch", "sleep"}) ~> Done(req[r])
  /\ [](\A r \in Reqs : req[r].attempts.discover <= 3 /\ req[r].attempts.action <= 3)

\* C26 witness: the discovery was answered 429 twice and then 200, the chat call
\* was answered 429 three times, and the request has ended with 429
C26_Witness ==
  \E r \in Reqs :
    /\ Done(req[r]) /\ req[r].calls = <<"discover", "action">>
    /\ req[r].attempts.discover = 3 /\ req[r].attempts.action = 3
    /\ Val(req[r].upstream).status = 429 /\ Answer(req[r]).status = 429

====
